---------------------------- MODULE Spec2Model ----------------------------
(***************************************************************************)
(* The conversation engine of blueberry-browser: LLMClient (main process), *)
(* the IPC handlers of EventManager that drive it, and the part of the     *)
(* renderer's ChatProvider that consumes its two sink channels.            *)
(*                                                                         *)
(* JavaScript runs one task at a time, so every action below is the code   *)
(* that runs between two suspension points (an await that waits for I/O).  *)
(* Text is a TLA+ string and concatenation is \o.  A message content is    *)
(* tagged: Str(s) is a bare string, Parts(ps) an array of content parts.   *)
(* Array indices are JavaScript's (0-based); At/SetAt translate.           *)
(*                                                                         *)
(* streamText and its fullStream belong to the `ai` package, which the     *)
(* repository only calls: the stream is an environment that chooses the    *)
(* next part, and the code's reaction to each part is what is modelled.    *)
(***************************************************************************)
EXTENDS Naturals, Sequences, FiniteSets, TLC

\* ------------------------------------------------------------------ bounds
MaxSubmits == 2      \* calls of sendChatMessage in one run
MaxClears == 1       \* calls of clearMessages in one run
MaxCalls == 2        \* tool-call parts in one run (Spec)
MaxParts == 2        \* text-delta, failed tool-result, tool-error and error parts
                     \* in one run (Spec)
MaxCapParts == 1     \* the same in one run of SpecCap
MaxConcCalls == 1    \* tool-call parts in one run of SpecConc
MaxConcParts == 2    \* the other parts in one run of SpecConc
MaxExecs == 2        \* tool executions in one run of SpecExec
MaxWords == 2        \* words of an error message (SpecClassify)
MaxSeqCalls == 1     \* tool-call parts in one run of SpecSeq
MaxSeqParts == 2     \* the other parts in one run of SpecSeq
MaxRequests == 3       \* requests in one run of SpecServer
MaxRuns == 2           \* runs of the scheduled-task processor in one run of SpecCron
MaxClock == 2          \* minutes that pass in one run of SpecCron
MaxTasks == 2          \* tasks scheduled in one run of SpecCron
MaxReplayParts == 3  \* parts of the stream that SpecReplay processes twice

\* ------------------------------------------------------- program constants
MAX_STEPS == 10

Subs == 1 .. MaxSubmits

\* ----------------------------------------------------------------- values
NoScreenshot == ""
\* request.message and request.messageId of the s-th call
RequestMessage(s) == IF s = 1 THEN "q1" ELSE IF s = 2 THEN "q2" ELSE "q3"
MessageId(s) == s

Str(s) == [kind |-> "string", text |-> s]
Parts(ps) == [kind |-> "parts", parts |-> ps]
TextPart(t) == [type |-> "text", text |-> t]
ImagePart(i) == [type |-> "image", image |-> i]
ToolCallPart(tc) ==
    [type |-> "tool-call", toolCallId |-> tc.toolCallId,
     toolName |-> tc.toolName, input |-> tc.input]
\* (mutant) the envelope is tagged as text
FormattedOutputText(out) == [type |-> "text", value |-> out]
\* formattedOutput of the tool-result branch
FormattedOutput(out) == [type |-> "json", value |-> out]
ToolResultPart(p) ==
    [type |-> "tool-result", toolCallId |-> p.toolCallId,
     toolName |-> p.toolName, output |-> FormattedOutput(p.output)]
Msg(role, content) == [role |-> role, content |-> content]

\* JavaScript array access
At(arr, i) == arr[i + 1]
SetAt(arr, i, v) == [arr EXCEPT ![i + 1] = v]
SeqMap(Op(_), seq) == [i \in 1 .. Len(seq) |-> Op(seq[i])]

NotConfiguredText ==
    "LLM service is not configured. Please add your API key to the .env file."

\* ------------------------------------------------------- error classifier
\* An error value: isError is `error instanceof Error`, message is its text as a
\* sequence of words.  toLowerCase acts word by word; includes(marker) holds when
\* some lowered word is the marker.
ToLowerCase(w) ==
    CASE w = "Unauthorized" -> "unauthorized"
      [] w = "UNAUTHORIZED" -> "unauthorized"
      [] w = "Rate Limit" -> "rate limit"
      [] w = "Network" -> "network"
      [] w = "NETWORK" -> "network"
      [] w = "Fetch" -> "fetch"
      [] w = "ECONNREFUSED" -> "econnrefused"
      [] w = "Timeout" -> "timeout"
      [] w = "TIMEOUT" -> "timeout"
      [] w = "Boom" -> "boom"
      [] OTHER -> w
\* (mutant) includes without toLowerCase
IncludesCaseSensitive(message, marker) ==
    \E i \in 1 .. Len(message) : message[i] = marker
Includes(message, marker) ==
    \E i \in 1 .. Len(message) : ToLowerCase(message[i]) = marker

MsgNotError == "An unexpected error occurred. Please try again."
MsgAuth == "Authentication error: Please check your API key in the .env file."
MsgRate == "Rate limit exceeded. Please try again in a few moments."
MsgNetwork == "Network error: Please check your internet connection."
MsgTimeout ==
    "Request timeout: The service took too long to respond. Please try again."
MsgUnknown ==
    "Sorry, I encountered an error while processing your request. Please try again."

getErrorMessage(error) ==
    IF ~error.isError THEN MsgNotError
    ELSE IF Includes(error.message, "401") \/ Includes(error.message, "unauthorized")
    THEN MsgAuth
    ELSE IF Includes(error.message, "429") \/ Includes(error.message, "rate limit")
    THEN MsgRate
    ELSE IF \/ Includes(error.message, "network")
            \/ Includes(error.message, "fetch")
            \/ Includes(error.message, "econnrefused")
    THEN MsgNetwork
    ELSE IF Includes(error.message, "timeout") THEN MsgTimeout
    ELSE MsgUnknown

\* The faults the provider raises in the bounded runs.
StreamFaults ==
    { [isError |-> TRUE, message |-> <<"Network", "TIMEOUT">>],
      [isError |-> FALSE, message |-> <<>>] }

\* ------------------------------------------------------------------ tools
ToolNames ==
    {"create_scheduled_task", "list_scheduled_tasks", "delete_scheduled_task"}

\* A tool input is named by its JSON shape; Validates is the tool's zod schema.
Validates(toolName, input) ==
    CASE toolName = "create_scheduled_task" -> input = "{cron,instruction}"
      [] toolName = "list_scheduled_tasks" ->
            input \in {"{}", "{cron,instruction}", "{cron}", "{taskId:number}"}
      [] toolName = "delete_scheduled_task" -> input = "{taskId:number}"
      [] OTHER -> FALSE

\* What the sync server does with the tool's request: the request rejects, or it
\* resolves to a response that is ok or not, whose body can be read or not.
ServerOutcomes == {"ok", "ok-badbody", "notok", "notok-badbody", "reject"}

FailPrefix(toolName) ==
    CASE toolName = "create_scheduled_task" -> "Failed to schedule task: "
      [] toolName = "list_scheduled_tasks" -> "Failed to list tasks: "
      [] OTHER -> "Failed to delete task: "
ErrorPrefix(toolName) ==
    CASE toolName = "create_scheduled_task" -> "Error scheduling task: "
      [] toolName = "list_scheduled_tasks" -> "Error listing tasks: "
      [] OTHER -> "Error deleting task: "

\* (mutant) execute without its catch: a rejected await leaves execute rejected
ExecuteNoCatch(toolName, outcome) ==
    IF outcome \in {"reject", "notok-badbody"}
    THEN [thrown |-> TRUE]
    ELSE IF outcome = "notok"
    THEN [success |-> FALSE, message |-> FailPrefix(toolName) \o "server said no"]
    ELSE IF toolName = "list_scheduled_tasks"
    THEN IF outcome = "ok-badbody" THEN [thrown |-> TRUE]
         ELSE [success |-> TRUE, tasks |-> "tasks"]
    ELSE [success |-> TRUE, message |-> "Task scheduled"]
\* execute of the three tools: try { request; if (!response.ok) ...; return
\* success } catch { return failure }.
Execute(toolName, outcome) ==
    IF outcome = "reject"
    THEN [success |-> FALSE, message |-> ErrorPrefix(toolName) \o "request failed"]
    ELSE IF outcome = "notok"
    THEN [success |-> FALSE, message |-> FailPrefix(toolName) \o "server said no"]
    ELSE IF outcome = "notok-badbody"
    THEN [success |-> FALSE, message |-> ErrorPrefix(toolName) \o "body failed"]
    ELSE IF toolName = "list_scheduled_tasks"
    THEN IF outcome = "ok-badbody"
         THEN [success |-> FALSE, message |-> ErrorPrefix(toolName) \o "body failed"]
         ELSE [success |-> TRUE, tasks |-> "tasks"]
    ELSE IF toolName = "create_scheduled_task"
    THEN [success |-> TRUE, message |-> "Task scheduled"]
    ELSE [success |-> TRUE, message |-> "Task deleted successfully"]

\* The tool calls the provider announces and the server outcomes of the bounded
\* runs.
AnnouncedCalls ==
    { [toolName |-> "create_scheduled_task", input |-> "{cron,instruction}"],
      [toolName |-> "create_scheduled_task", input |-> "{cron}"] }
PlainCall == [toolName |-> "create_scheduled_task", input |-> "{cron,instruction}"]
RunOutcomes == {"ok", "notok"}
\* The text of the run's text-delta parts: each part has its own text.
Fragment(left) == IF left = 1 THEN "a" ELSE IF left = 2 THEN "b" ELSE "c"

\* ------------------------------------------------------------------ state
VARIABLES
    model,        \* this.model is set (an API key was found at construction)
    activeTab,    \* this.window and its activeTab are set
    messages,     \* this.messages
    sub,          \* per call of sendChatMessage: its position and its locals
    sink,         \* what webContents.send has sent, in order
    isLoading,    \* ChatProvider's isLoading
    uiMessages,   \* ChatProvider's messages
    faults,       \* every failure that has happened, by submission
    nextCallId,   \* the provider's next tool-call id
    callsLeft,    \* tool-call parts the run may still deliver
    partsLeft,    \* other stream parts the run may still deliver
    clearsLeft,   \* clearMessages calls the run may still make
    probe,        \* the inputs and results of the function a run applies by itself
    server        \* the sync server: its tables and the request it handled last

vars ==
    <<model, activeTab, messages, sub, sink, isLoading, uiMessages, faults,
      nextCallId, callsLeft, partsLeft, clearsLeft, probe, server>>

\* The locals of one call before it is made.  Beside the code's own locals:
\* outstanding (the announced calls whose result part is still to come), and
\* what the properties observe: invoked (calls of streamText), startLen and
\* roundLen (the store's length when the call and its current round began),
\* history (the store when the call was made), fragments (text-delta parts of
\* the current round), roundCalls (the tool-call parts of the current round, in
\* order) and resultAt (how many of them had come at the latest tool-result).
IdleSub ==
    [pc |-> "idle", screenshot |-> NoScreenshot, stepCount |-> 0,
     currentMessages |-> <<>>, currentStepText |-> "", messageIndex |-> 0,
     newMessages |-> <<>>, hasToolCalls |-> FALSE, currentToolCalls |-> <<>>,
     outstanding |-> {}, invoked |-> 0, startLen |-> 0, roundLen |-> 0,
     fragments |-> 0, history |-> <<>>, roundCalls |-> <<>>, resultAt |-> 0]


\* ------------------------------------------------------------- sink events
\* sendMessagesToRenderer and sendStreamChunk
Updated(msgs) == [channel |-> "chat-messages-updated", messages |-> msgs]
Response(id, content, isComplete) ==
    [channel |-> "chat-response", messageId |-> id, content |-> content,
     isComplete |-> isComplete]
\* (mutant) the error chunk is sent without the completion flag
sendErrorMessageIncomplete(id, errorMessage) == Response(id, errorMessage, FALSE)
sendErrorMessage(id, errorMessage) == Response(id, errorMessage, TRUE)

\* ---------------------------------------------------------------- renderer
\* ChatProvider.convertCoreMessage
convertCoreMessage(msg, index) ==
    IF msg.content.kind = "string"
    THEN [id |-> index, role |-> msg.role, content |-> msg.content.text,
          toolCalls |-> <<>>, toolResults |-> <<>>]
    ELSE LET ps == msg.content.parts
             IsText(p) == p.type = "text"
             IsCall(p) == p.type = "tool-call"
             IsResult(p) == p.type = "tool-result"
             CallOf(p) == [toolCallId |-> p.toolCallId, toolName |-> p.toolName]
             ResultOf(p) ==
                 [toolCallId |-> p.toolCallId, toolName |-> p.toolName,
                  result |-> p.output.value]
             texts == SelectSeq(ps, IsText)
         IN [id |-> index, role |-> msg.role,
             content |-> IF texts = <<>> THEN "" ELSE texts[1].text,
             toolCalls |-> SeqMap(CallOf, SelectSeq(ps, IsCall)),
             toolResults |-> SeqMap(ResultOf, SelectSeq(ps, IsResult))]

\* ChatProvider.handleMessagesUpdated, applied to the events of `out` in order:
\* the last snapshot wins.
handleMessagesUpdated(ui, out) ==
    LET IsUpdate(e) == e.channel = "chat-messages-updated"
        ups == SelectSeq(out, IsUpdate)
    IN IF ups = <<>> THEN ui
       ELSE LET snap == ups[Len(ups)].messages
            IN [i \in 1 .. Len(snap) |-> convertCoreMessage(snap[i], i - 1)]

\* ChatProvider.handleChatResponse, applied to the events of `out` in order, then
\* the `finally` of sendMessage when the IPC call has returned.
handleChatResponse(loading, out, returned) ==
    IF returned THEN FALSE
    ELSE IF \E i \in 1 .. Len(out) :
               out[i].channel = "chat-response" /\ out[i].isComplete
    THEN FALSE
    ELSE loading

\* ------------------------------------------------------------- LLMClient
\* (mutant) the text part is pushed before the image part
UserMessageTextFirst(s, screenshot) ==
    LET userContent ==
            <<TextPart(RequestMessage(s))>> \o
                (IF screenshot # NoScreenshot THEN <<ImagePart(screenshot)>> ELSE <<>>)
    IN Msg("user",
           IF Len(userContent) = 1 THEN Str(RequestMessage(s))
           ELSE Parts(userContent))
\* sendChatMessage: the user message
UserMessage(s, screenshot) ==
    LET userContent ==
            (IF screenshot # NoScreenshot THEN <<ImagePart(screenshot)>> ELSE <<>>)
                \o <<TextPart(RequestMessage(s))>>
    IN Msg("user",
           IF Len(userContent) = 1 THEN Str(RequestMessage(s))
           ELSE Parts(userContent))

buildSystemPrompt(url, pageText) ==
    "You are a helpful AI assistant" \o (IF url THEN " url" ELSE "")
        \o (IF pageText THEN " page" ELSE "")

prepareMessagesWithContext(msgs, url, pageText) ==
    <<Msg("system", Str(buildSystemPrompt(url, pageText)))>> \o msgs

\* (mutant) the loop condition off by one
LoopContinuesOffByOne(stepCount) == stepCount <= MAX_STEPS
\* streamResponse: the loop condition
LoopContinues(stepCount) == stepCount < MAX_STEPS

\* (mutant) currentStepText and currentToolCalls outlive the call of processStream
BeginRoundKeepsText(r, msgs) ==
    [r EXCEPT !.pc = "stream", !.stepCount = @ + 1, !.invoked = @ + 1,
              !.messageIndex = Len(msgs),
              !.newMessages = <<>>, !.hasToolCalls = FALSE,
              !.outstanding = {},
              !.roundLen = Len(msgs), !.fragments = 0,
              !.roundCalls = <<>>, !.resultAt = 0]
\* streamResponse: one loop iteration up to the first await of processStream:
\* stepCount++, streamText(...), and processStream's locals.
BeginRound(r, msgs) ==
    [r EXCEPT !.pc = "stream", !.stepCount = @ + 1, !.invoked = @ + 1,
              !.currentStepText = "", !.messageIndex = Len(msgs),
              !.newMessages = <<>>, !.hasToolCalls = FALSE,
              !.currentToolCalls = <<>>, !.outstanding = {},
              !.roundLen = Len(msgs), !.fragments = 0,
              !.roundCalls = <<>>, !.resultAt = 0]

\* streamResponse: its entry with the prepared list
EnterStream(r, prepared, msgs) ==
    BeginRound([r EXCEPT !.currentMessages = prepared, !.stepCount = 0], msgs)

\* streamResponse: after processStream has returned
AfterRound(r, msgs) ==
    IF ~r.hasToolCalls THEN [r EXCEPT !.pc = "done"]
    ELSE LET r1 == [r EXCEPT !.currentMessages = @ \o r.newMessages]
         IN IF LoopContinues(r1.stepCount) THEN BeginRound(r1, msgs)
            ELSE [r1 EXCEPT !.pc = "done"]

\* (mutant) the in-place write goes to the first element of the store
PutAssistantAtZero(msgs, messageIndex, m) ==
    IF Len(msgs) <= messageIndex THEN Append(msgs, m)
    ELSE SetAt(msgs, 0, m)
\* (mutant) every text-delta pushes a new message
PutAssistantAlwaysPush(msgs, messageIndex, m) == Append(msgs, m)
\* processStream: where the in-progress assistant message goes
PutAssistant(msgs, messageIndex, m) ==
    IF Len(msgs) <= messageIndex THEN Append(msgs, m)
    ELSE SetAt(msgs, messageIndex, m)

\* (mutant) the chunk carries the accumulated text
OnTextDeltaAccumulated(msgs, r, id, text) ==
    LET t == r.currentStepText \o text
        msgs1 == PutAssistant(msgs, r.messageIndex, Msg("assistant", Str(t)))
    IN [msgs |-> msgs1,
        r |-> [r EXCEPT !.currentStepText = t, !.fragments = @ + 1],
        out |-> <<Updated(msgs1), Response(id, t, FALSE)>>]
\* (mutant) the stored assistant message holds the last fragment only
OnTextDeltaLastFragment(msgs, r, id, text) ==
    LET t == r.currentStepText \o text
        msgs1 == PutAssistant(msgs, r.messageIndex, Msg("assistant", Str(text)))
    IN [msgs |-> msgs1,
        r |-> [r EXCEPT !.currentStepText = t, !.fragments = @ + 1],
        out |-> <<Updated(msgs1), Response(id, text, FALSE)>>]
\* processStream: part.type === "text-delta"
OnTextDelta(msgs, r, id, text) ==
    LET t == r.currentStepText \o text
        msgs1 == PutAssistant(msgs, r.messageIndex, Msg("assistant", Str(t)))
    IN [msgs |-> msgs1,
        r |-> [r EXCEPT !.currentStepText = t, !.fragments = @ + 1],
        out |-> <<Updated(msgs1), Response(id, text, FALSE)>>]

\* (mutant) the tool-call branch records its message in newMessages only
OnToolCallNotStored(msgs, r, part) ==
    LET calls == Append(r.currentToolCalls, part)
        toolCallMessage ==
            Msg("assistant",
                Parts((IF r.currentStepText # ""
                       THEN <<TextPart(r.currentStepText)>> ELSE <<>>)
                      \o SeqMap(ToolCallPart, calls)))
        nm == r.newMessages
        nm1 == IF Len(msgs) <= r.messageIndex THEN Append(nm, toolCallMessage)
               ELSE IF Len(nm) > 0 /\ nm[Len(nm)].role = "assistant"
               THEN [nm EXCEPT ![Len(nm)] = toolCallMessage]
               ELSE Append(nm, toolCallMessage)
    IN [msgs |-> msgs,
        r |-> [r EXCEPT !.hasToolCalls = TRUE, !.currentToolCalls = calls,
                        !.newMessages = nm1],
        out |-> <<Updated(msgs)>>]
\* (mutant) the tool-call branch leaves the accumulated text out of the message
OnToolCallNoText(msgs, r, part) ==
    LET calls == Append(r.currentToolCalls, part)
        toolCallMessage == Msg("assistant", Parts(SeqMap(ToolCallPart, calls)))
        msgs1 == PutAssistant(msgs, r.messageIndex, toolCallMessage)
        nm == r.newMessages
        nm1 == IF Len(msgs) <= r.messageIndex THEN Append(nm, toolCallMessage)
               ELSE IF Len(nm) > 0 /\ nm[Len(nm)].role = "assistant"
               THEN [nm EXCEPT ![Len(nm)] = toolCallMessage]
               ELSE Append(nm, toolCallMessage)
    IN [msgs |-> msgs1,
        r |-> [r EXCEPT !.hasToolCalls = TRUE, !.currentToolCalls = calls,
                        !.newMessages = nm1],
        out |-> <<Updated(msgs1)>>]
\* processStream: part.type === "tool-call"
OnToolCall(msgs, r, part) ==
    LET calls == Append(r.currentToolCalls, part)
        toolCallMessage ==
            Msg("assistant",
                Parts((IF r.currentStepText # ""
                       THEN <<TextPart(r.currentStepText)>> ELSE <<>>)
                      \o SeqMap(ToolCallPart, calls)))
        msgs1 == PutAssistant(msgs, r.messageIndex, toolCallMessage)
        nm == r.newMessages
        nm1 == IF Len(msgs) <= r.messageIndex THEN Append(nm, toolCallMessage)
               ELSE IF Len(nm) > 0 /\ nm[Len(nm)].role = "assistant"
               THEN [nm EXCEPT ![Len(nm)] = toolCallMessage]
               ELSE Append(nm, toolCallMessage)
    IN [msgs |-> msgs1,
        r |-> [r EXCEPT !.hasToolCalls = TRUE, !.currentToolCalls = calls,
                        !.newMessages = nm1],
        out |-> <<Updated(msgs1)>>]

\* (mutant) the tool-result branch keeps the accumulated text
OnToolResultKeepsText(msgs, r, part) ==
    LET toolResultMessage == Msg("tool", Parts(<<ToolResultPart(part)>>))
        msgs1 == Append(msgs, toolResultMessage)
    IN [msgs |-> msgs1,
        r |-> [r EXCEPT !.newMessages = Append(@, toolResultMessage),
                        !.currentToolCalls = <<>>,
                        !.messageIndex = Len(msgs1)],
        out |-> <<Updated(msgs1)>>]
\* (mutant) the tool-result branch notifies before it pushes
OnToolResultStaleSnapshot(msgs, r, part) ==
    LET toolResultMessage == Msg("tool", Parts(<<ToolResultPart(part)>>))
        msgs1 == Append(msgs, toolResultMessage)
    IN [msgs |-> msgs1,
        r |-> [r EXCEPT !.newMessages = Append(@, toolResultMessage),
                        !.currentStepText = "", !.currentToolCalls = <<>>,
                        !.messageIndex = Len(msgs1)],
        out |-> <<Updated(msgs)>>]
\* processStream: part.type === "tool-result"
OnToolResult(msgs, r, part) ==
    LET toolResultMessage == Msg("tool", Parts(<<ToolResultPart(part)>>))
        msgs1 == Append(msgs, toolResultMessage)
    IN [msgs |-> msgs1,
        r |-> [r EXCEPT !.newMessages = Append(@, toolResultMessage),
                        !.currentStepText = "", !.currentToolCalls = <<>>,
                        !.messageIndex = Len(msgs1)],
        out |-> <<Updated(msgs1)>>]

\* processStream: a part of any other type changes nothing
OnOtherPart(msgs, r) == [msgs |-> msgs, r |-> r, out |-> <<>>]

\* handleStreamError
handleStreamError(id, error) == sendErrorMessage(id, getErrorMessage(error))


\* ------------------------------------------------------------------ actions
Fault(s, kind, id, error) ==
    [sub |-> s, kind |-> kind, toolCallId |-> id, error |-> error]
NoError == [isError |-> FALSE, message |-> <<>>]

\* One step of submission s: its locals become r, the store msgs, and the events
\* of out are sent and handled by the renderer.
Commit(s, r, msgs, out, loading) ==
    /\ sub' = [sub EXCEPT ![s] = r]
    /\ messages' = msgs
    /\ sink' = sink \o out
    /\ uiMessages' = handleMessagesUpdated(uiMessages, out)
    /\ isLoading' = handleChatResponse(loading, out, r.pc = "done")

\* (mutant) sendChatMessage without its `if (!this.model)` return
PushUserNoModelCheck(s, r, screenshot) ==
    LET msgs1 == Append(messages, UserMessage(s, screenshot))
        r1 == [r EXCEPT !.screenshot = screenshot]
    IN [msgs |-> msgs1,
        r |-> EnterStream(r1, prepareMessagesWithContext(msgs1, FALSE, FALSE), msgs1),
        out |-> <<Updated(msgs1)>>]
\* sendChatMessage from the push of the user message to its next await
PushUser(s, r, screenshot) ==
    LET msgs1 == Append(messages, UserMessage(s, screenshot))
        r1 == [r EXCEPT !.screenshot = screenshot]
    IN IF ~model
       THEN [msgs |-> msgs1, r |-> [r1 EXCEPT !.pc = "done"],
             out |-> <<Updated(msgs1), sendErrorMessage(MessageId(s), NotConfiguredText)>>]
       ELSE IF activeTab
       THEN [msgs |-> msgs1, r |-> [r1 EXCEPT !.pc = "context"],
             out |-> <<Updated(msgs1)>>]
       ELSE [msgs |-> msgs1,
             r |-> EnterStream(r1,
                       prepareMessagesWithContext(msgs1, FALSE, FALSE), msgs1),
             out |-> <<Updated(msgs1)>>]

NotConfiguredFault(s) ==
    IF model THEN {} ELSE {Fault(s, "NotConfigured", 0, NoError)}

\* ChatProvider.sendMessage, the sidebar-chat-message handler and sendChatMessage
\* up to its first await.
SendChatMessage(s) ==
    /\ sub[s].pc = "idle"
    /\ IF s = 1 THEN TRUE ELSE sub[s - 1].pc # "idle"
    /\ LET r0 == [sub[s] EXCEPT !.startLen = Len(messages), !.history = messages]
       IN IF activeTab
          THEN /\ Commit(s, [r0 EXCEPT !.pc = "screenshot"], messages, <<>>, TRUE)
               /\ UNCHANGED faults
          ELSE LET n == PushUser(s, r0, NoScreenshot)
               IN /\ Commit(s, n.r, n.msgs, n.out, TRUE)
                  /\ faults' = faults \cup NotConfiguredFault(s)
    /\ UNCHANGED <<probe, server, model, activeTab, nextCallId, callsLeft, partsLeft, clearsLeft>>

\* await activeTab.screenshot() settles: an image, or a rejection that is caught
ScreenshotOf(s, screenshot) ==
    /\ sub[s].pc = "screenshot"
    /\ LET n == PushUser(s, sub[s], screenshot)
       IN Commit(s, n.r, n.msgs, n.out, isLoading)
    /\ faults' = faults \cup NotConfiguredFault(s)
    /\ UNCHANGED <<probe, server, model, activeTab, nextCallId, callsLeft, partsLeft, clearsLeft>>

ScreenshotDone(s) ==
    \E screenshot \in {NoScreenshot, "data:image"} : ScreenshotOf(s, screenshot)

\* await activeTab.getTabText() settles (a rejection is caught): the outbound list
\* is built from the store as it is now and round 1 starts.
ContextOf(s, pageText) ==
    /\ sub[s].pc = "context"
    /\ Commit(s,
              EnterStream(sub[s],
                  prepareMessagesWithContext(messages, TRUE, pageText), messages),
              messages, <<>>, isLoading)
    /\ UNCHANGED <<probe, server, model, activeTab, faults, nextCallId, callsLeft, partsLeft,
                   clearsLeft>>

ContextDone(s) == \E pageText \in BOOLEAN : ContextOf(s, pageText)

\* fullStream yields a text-delta part
TextDelta(s) ==
    /\ sub[s].pc = "stream"
    /\ partsLeft > 0
    /\ LET n == OnTextDelta(messages, sub[s], MessageId(s), Fragment(partsLeft))
       IN Commit(s, n.r, n.msgs, n.out, isLoading)
    /\ partsLeft' = partsLeft - 1
    /\ UNCHANGED <<probe, server, model, activeTab, faults, nextCallId, callsLeft, clearsLeft>>

\* fullStream yields a tool-call part.  The `ai` package has checked the input
\* against the tool's inputSchema: a valid call is handed to execute, an invalid
\* one is not.  Either way the call is outstanding until its tool-result or
\* tool-error part.
ToolCallOf(s, call) ==
    /\ sub[s].pc = "stream"
    /\ callsLeft > 0
    /\ LET part == [toolCallId |-> nextCallId, toolName |-> call.toolName,
                    input |-> call.input]
           n == OnToolCall(messages, sub[s], part)
       IN /\ Commit(s, [n.r EXCEPT !.outstanding = @ \cup {part},
                                 !.roundCalls = Append(@, part)], n.msgs, n.out,
                    isLoading)
          /\ faults' =
                IF Validates(call.toolName, call.input) THEN faults
                ELSE faults \cup
                         {Fault(s, "ToolValidationFailure", nextCallId, NoError)}
    /\ nextCallId' = nextCallId + 1
    /\ callsLeft' = callsLeft - 1
    /\ UNCHANGED <<probe, server, model, activeTab, partsLeft, clearsLeft>>

ToolCall(s) == \E call \in AnnouncedCalls : ToolCallOf(s, call)

\* What a tool-result part takes from the run's budget of parts: the result of a
\* successful execution comes with its call.
PartCost(outcome) == IF outcome = "ok" THEN 0 ELSE 1

\* fullStream yields the tool-result part of an executed call: its output is what
\* execute returned.
ToolResultOf(s, outcome) ==
    /\ sub[s].pc = "stream"
    /\ \E c \in sub[s].outstanding :
          /\ Validates(c.toolName, c.input)
          /\ partsLeft >= PartCost(outcome)
          /\ partsLeft' = partsLeft - PartCost(outcome)
          /\ LET output == Execute(c.toolName, outcome)
                 part == [toolCallId |-> c.toolCallId, toolName |-> c.toolName,
                          output |-> output]
                 n == OnToolResult(messages, sub[s], part)
             IN /\ Commit(s, [n.r EXCEPT !.outstanding = @ \ {c},
                                       !.resultAt = Len(n.r.roundCalls)],
                          n.msgs, n.out, isLoading)
                /\ faults' =
                      IF output.success THEN faults
                      ELSE faults \cup
                               {Fault(s, "ToolExecutionFailure", c.toolCallId, NoError)}
    /\ UNCHANGED <<probe, server, model, activeTab, nextCallId, callsLeft, clearsLeft>>

ToolResult(s) == \E outcome \in RunOutcomes : ToolResultOf(s, outcome)

\* fullStream yields the tool-error part of a call whose input was invalid
ToolError(s) ==
    /\ sub[s].pc = "stream"
    /\ partsLeft > 0
    /\ \E c \in sub[s].outstanding :
          /\ ~Validates(c.toolName, c.input)
          /\ LET n == OnOtherPart(messages, sub[s])
             IN Commit(s, [n.r EXCEPT !.outstanding = @ \ {c}], n.msgs, n.out,
                       isLoading)
    /\ partsLeft' = partsLeft - 1
    /\ UNCHANGED <<probe, server, model, activeTab, faults, nextCallId, callsLeft, clearsLeft>>

\* fullStream yields an error part: the provider's fault, reported as an event
ErrorPart(s) ==
    /\ sub[s].pc = "stream"
    /\ partsLeft > 0
    /\ LET n == OnOtherPart(messages, sub[s])
       IN Commit(s, n.r, n.msgs, n.out, isLoading)
    /\ faults' = faults \cup {Fault(s, "ProviderFaultEvent", 0, NoError)}
    /\ partsLeft' = partsLeft - 1
    /\ UNCHANGED <<probe, server, model, activeTab, nextCallId, callsLeft, clearsLeft>>

\* (mutant) running out of rounds is reported with sendErrorMessage
StreamEndCapError(s) ==
    /\ sub[s].pc = "stream"
    /\ sub[s].outstanding = {}
    /\ LET r == AfterRound(sub[s], messages)
       IN Commit(s, r, messages,
                 IF r.pc # "done" THEN <<>>
                 ELSE IF r.hasToolCalls
                 THEN <<sendErrorMessage(MessageId(s), MsgUnknown)>>
                 ELSE <<Response(MessageId(s), "", TRUE)>>,
                 isLoading)
    /\ UNCHANGED <<probe, server, model, activeTab, faults, nextCallId, callsLeft, partsLeft,
                   clearsLeft>>
\* fullStream ends (no call is outstanding): processStream returns and
\* streamResponse starts the next round or sends the completion signal.
StreamEnd(s) ==
    /\ sub[s].pc = "stream"
    /\ sub[s].outstanding = {}
    /\ LET r == AfterRound(sub[s], messages)
       IN Commit(s, r, messages,
                 IF r.pc = "done" THEN <<Response(MessageId(s), "", TRUE)>> ELSE <<>>,
                 isLoading)
    /\ UNCHANGED <<probe, server, model, activeTab, faults, nextCallId, callsLeft, partsLeft,
                   clearsLeft>>

\* awaiting the next part rejects: the catch of sendChatMessage
StreamThrowOf(s, error) ==
    /\ sub[s].pc = "stream"
    /\ Commit(s, [sub[s] EXCEPT !.pc = "done"], messages,
              <<handleStreamError(MessageId(s), error)>>, isLoading)
    /\ faults' = faults \cup {Fault(s, "ProviderFault", 0, error)}
    /\ UNCHANGED <<probe, server, model, activeTab, nextCallId, callsLeft, partsLeft, clearsLeft>>

StreamThrow(s) == \E error \in StreamFaults : StreamThrowOf(s, error)

\* getMessages
getMessages == messages

\* (mutant) clearMessages without sendMessagesToRenderer
ClearMessagesSilent ==
    /\ clearsLeft > 0
    /\ messages' = <<>>
    /\ clearsLeft' = clearsLeft - 1
    /\ UNCHANGED <<probe, server, model, activeTab, sub, isLoading, faults, nextCallId,
                   callsLeft, partsLeft, sink, uiMessages>>
\* the sidebar-clear-chat handler: clearMessages
ClearMessages ==
    /\ clearsLeft > 0
    /\ messages' = <<>>
    /\ sink' = Append(sink, Updated(<<>>))
    /\ uiMessages' = handleMessagesUpdated(uiMessages, <<Updated(<<>>)>>)
    /\ clearsLeft' = clearsLeft - 1
    /\ UNCHANGED <<probe, server, model, activeTab, sub, isLoading, faults, nextCallId, callsLeft,
                   partsLeft>>

\* ------------------------------------------------------------------ server
\* The X-User-Id header of a request: absent, or a string
NoHeader == [present |-> FALSE, value |-> ""]
Header(v) == [present |-> TRUE, value |-> v]
Headers ==
    {NoHeader, Header(""), Header("  "), Header("u1"), Header(" u1"), Header("u2")}
\* String.prototype.trim, on the header values of the runs
Trim(v) == IF v = "  " THEN "" ELSE IF v = " u1" THEN "u1" ELSE v

\* JSON.stringify of an object with string members: the members as text, in key
\* order; JSON.parse of such a text: the object with these members
JsonKeys == <<"cookies", "userAgent">>
JSONstringify(d) ==
    LET In(k) == k \in DOMAIN d
        ks == SelectSeq(JsonKeys, In)
    IN [i \in 1 .. Len(ks) |-> <<ks[i], d[ks[i]]>>]
JSONparse(text) ==
    [k \in {text[i][1] : i \in 1 .. Len(text)} |->
        text[CHOOSE i \in 1 .. Len(text) : text[i][1] = k][2]]
\* The session data clients post
DataValues ==
    { [k \in {} |-> ""],
      [userAgent |-> "ua1"],
      [userAgent |-> "ua2", cookies |-> "c2"] }

\* (mutant) the insert keeps the row a uid already has
storeInsertOrIgnore(table, uid, data) ==
    [u \in DOMAIN table \cup {uid} |->
        IF u \in DOMAIN table THEN table[u] ELSE JSONstringify(data)]
\* lib/store: the data table (uid TEXT PRIMARY KEY, data TEXT) as a function
\* from the stored uids to their text
store(table, uid, data) ==
    [u \in DOMAIN table \cup {uid} |->
        IF u = uid THEN JSONstringify(data) ELSE table[u]]
get(table, uid) ==
    IF uid \notin DOMAIN table THEN [defined |-> FALSE]
    ELSE [defined |-> TRUE, value |-> JSONparse(table[uid])]

\* lib/store: the scheduled tasks, a sequence of rows in id order
scheduleTask(rows, id, userId, cron, instruction) ==
    Append(rows, [id |-> id, user_id |-> userId, schedule |-> cron,
                  prompt |-> instruction, next_run |-> 0])
getScheduledTasks(rows, userId) ==
    LET Mine(t) == t.user_id = userId IN SelectSeq(rows, Mine)
getTask(rows, id) ==
    IF \E i \in 1 .. Len(rows) : rows[i].id = id
    THEN [defined |-> TRUE,
          value |-> rows[CHOOSE i \in 1 .. Len(rows) : rows[i].id = id]]
    ELSE [defined |-> FALSE]
deleteTask(rows, id) ==
    LET Other(t) == t.id # id IN SelectSeq(rows, Other)

\* parseInt of the :id path parameter; NaN equals no id
NaN == 0 - 1
IdParams == {"1", "2", "1x", "x"}
ParseInt(id) ==
    IF id = "1" \/ id = "1x" THEN 1 ELSE IF id = "2" THEN 2 ELSE NaN

\* The server before any request.  Beside its tables: left (the requests the run
\* may still make), last (the request handled last and its answer) and written
\* (for each uid, the data its handled POST /sync requests sent, in order); the
\* time in minutes (clock), the runs of the processor still to come (runsLeft),
\* the agents started so far (agents) and the position of the processor (fn:
\* the tasks getPendingTasks returned, the turn of the loop, base, the number of
\* agents started before this run, and at, the time of the run).
ServerInit ==
    [data |-> [u \in {} |-> <<>>], tasks |-> <<>>, nextTaskId |-> 1,
     left |-> MaxRequests, written |-> [u \in {} |-> <<>>],
     clock |-> 0, runsLeft |-> MaxRuns, agents |-> <<>>,
     fn |-> [pc |-> "idle", tasks |-> <<>>, i |-> 0, base |-> 0, at |-> 0],
     last |-> [route |-> "none", header |-> NoHeader, param |-> "", sent |-> <<>>,
               status |-> 0, handled |-> FALSE, userId |-> "", body |-> <<>>]]

\* (mutant) authMiddleware without the trim test
authMiddlewareNoTrim(header) ==
    IF ~header.present \/ header.value = ""
    THEN [next |-> FALSE, status |-> 401]
    ELSE [next |-> TRUE, userId |-> header.value]
\* authMiddleware: 401 without calling next, or userId set and next called
authMiddleware(header) ==
    IF ~header.present \/ header.value = "" \/ Trim(header.value) = ""
    THEN [next |-> FALSE, status |-> 401]
    ELSE [next |-> TRUE, userId |-> header.value]

\* What a request leaves in the server: the tables, and the exchange as `last`
Exchange(route, header, status, handled, userId, body) ==
    [route |-> route, header |-> header, param |-> "", sent |-> <<>>,
     status |-> status, handled |-> handled, userId |-> userId, body |-> body]
Rejected(route, header) ==
    Exchange(route, header, 401, FALSE, "",
             [error |-> "Unauthorized: X-User-Id header required"])
Invalid(route, header) ==
    Exchange(route, header, 400, FALSE, "", [success |-> FALSE])
Written(written, uid, data) ==
    [u \in DOMAIN written \cup {uid} |->
        IF u \in DOMAIN written
        THEN (IF u = uid THEN Append(written[u], data) ELSE written[u])
        ELSE <<data>>]
Handle(data, tasks, nextTaskId, last) ==
    /\ server.left > 0
    /\ server' = [server EXCEPT
                     !.data = data, !.tasks = tasks, !.nextTaskId = nextTaskId,
                     !.left = server.left - 1, !.last = last,
                     !.written = IF last.route = "POST /sync" /\ last.handled
                                 THEN Written(server.written, last.userId,
                                              last.sent)
                                 ELSE server.written]
    /\ UNCHANGED <<probe, model, activeTab, messages, sub, sink, isLoading, uiMessages,
                   faults, nextCallId, callsLeft, partsLeft, clearsLeft>>

\* The bodies of POST /sync and POST /tasks/schedule, as zValidator sees them
SyncBodies ==
    {[valid |-> FALSE, data |-> <<>>]} \cup
        {[valid |-> TRUE, data |-> d] : d \in DataValues}
ScheduleBodies ==
    { [valid |-> FALSE, cron |-> "", instruction |-> ""],
      [valid |-> TRUE, cron |-> "0 9 * * *", instruction |-> "p1"],
      [valid |-> TRUE, cron |-> "soon", instruction |-> "p2"] }

\* sync app, POST / and GET /: the handlers
syncPost(table, userId, data) ==
    [table |-> store(table, userId, data), status |-> 200,
     body |-> [success |-> TRUE]]
syncGet(table, userId) ==
    LET data == get(table, userId)
    IN IF ~data.defined
       THEN [status |-> 404, body |-> [error |-> "No data found"]]
       ELSE [status |-> 200, body |-> data.value]

\* tasks app, POST /schedule, GET / and DELETE /:id: the handlers
tasksSchedule(rows, nextId, userId, cron, instruction) ==
    [rows |-> scheduleTask(rows, nextId, userId, cron, instruction),
     status |-> 200, body |-> [success |-> TRUE]]
tasksList(rows, userId) ==
    [status |-> 200, body |-> [tasks |-> getScheduledTasks(rows, userId)]]
\* (mutant) DELETE /:id without the comparison of user_id
tasksDeleteAnyOwner(rows, userId, id) ==
    LET task == getTask(rows, ParseInt(id))
    IN IF ~task.defined
       THEN [rows |-> rows, status |-> 404, body |-> [error |-> "Task not found"]]
       ELSE [rows |-> deleteTask(rows, task.value.id), status |-> 200,
             body |-> [success |-> TRUE]]
tasksDelete(rows, userId, id) ==
    LET task == getTask(rows, ParseInt(id))
    IN IF ~task.defined
       THEN [rows |-> rows, status |-> 404, body |-> [error |-> "Task not found"]]
       ELSE IF task.value.user_id # userId
       THEN [rows |-> rows, status |-> 403, body |-> [error |-> "Unauthorized"]]
       ELSE [rows |-> deleteTask(rows, task.value.id), status |-> 200,
             body |-> [success |-> TRUE]]

\* One request to each route: authMiddleware, the body validator where the route
\* has one, then the handler
SyncPost(header, body) ==
    LET auth == authMiddleware(header)
    IN IF ~auth.next
       THEN Handle(server.data, server.tasks, server.nextTaskId,
                   Rejected("POST /sync", header))
       ELSE IF ~body.valid
       THEN Handle(server.data, server.tasks, server.nextTaskId,
                   Invalid("POST /sync", header))
       ELSE LET r == syncPost(server.data, auth.userId, body.data)
            IN Handle(r.table, server.tasks, server.nextTaskId,
                      [Exchange("POST /sync", header, r.status, TRUE, auth.userId,
                                r.body) EXCEPT !.sent = body.data])
SyncGet(header) ==
    LET auth == authMiddleware(header)
    IN IF ~auth.next
       THEN Handle(server.data, server.tasks, server.nextTaskId,
                   Rejected("GET /sync", header))
       ELSE LET r == syncGet(server.data, auth.userId)
            IN Handle(server.data, server.tasks, server.nextTaskId,
                      Exchange("GET /sync", header, r.status, TRUE, auth.userId,
                               r.body))
TasksSchedule(header, body) ==
    LET auth == authMiddleware(header)
    IN IF ~auth.next
       THEN Handle(server.data, server.tasks, server.nextTaskId,
                   Rejected("POST /tasks/schedule", header))
       ELSE IF ~body.valid
       THEN Handle(server.data, server.tasks, server.nextTaskId,
                   Invalid("POST /tasks/schedule", header))
       ELSE LET r == tasksSchedule(server.tasks, server.nextTaskId, auth.userId,
                                   body.cron, body.instruction)
            IN Handle(server.data, r.rows, server.nextTaskId + 1,
                      Exchange("POST /tasks/schedule", header, r.status, TRUE,
                               auth.userId, r.body))
TasksList(header) ==
    LET auth == authMiddleware(header)
    IN IF ~auth.next
       THEN Handle(server.data, server.tasks, server.nextTaskId,
                   Rejected("GET /tasks", header))
       ELSE LET r == tasksList(server.tasks, auth.userId)
            IN Handle(server.data, server.tasks, server.nextTaskId,
                      Exchange("GET /tasks", header, r.status, TRUE, auth.userId,
                               r.body))
TasksDelete(header, id) ==
    LET auth == authMiddleware(header)
    IN IF ~auth.next
       THEN Handle(server.data, server.tasks, server.nextTaskId,
                   [Rejected("DELETE /tasks/:id", header) EXCEPT !.param = id])
       ELSE LET r == tasksDelete(server.tasks, auth.userId, id)
            IN Handle(server.data, r.rows, server.nextTaskId,
                      [Exchange("DELETE /tasks/:id", header, r.status, TRUE,
                                auth.userId, r.body) EXCEPT !.param = id])

\* ------------------------------------------------- scheduled-task processor
\* lib/store: the tasks that are due, in id order, and the update of next_run
getPendingTasks(rows, now) ==
    LET Due(t) == t.next_run <= now IN SelectSeq(rows, Due)
updateTask(rows, id, nextRun) ==
    [i \in 1 .. Len(rows) |->
        IF rows[i].id = id THEN [rows[i] EXCEPT !.next_run = nextRun] ELSE rows[i]]

\* cron.sendAt(schedule).toSeconds(), in minutes: the next time after now that
\* the schedule fires; a string that is no cron expression makes sendAt throw
CronEveryMinute == "0 * * * * *"
CronEveryOther == "0 */2 * * * *"
ValidCron(schedule) == schedule \in {CronEveryMinute, CronEveryOther}
sendAt(schedule, now) ==
    IF schedule = CronEveryMinute THEN now + 1 ELSE now + 2 - (now % 2)

\* executeAgent(user_id, prompt), called and not awaited: a promise that settles
\* later
executeAgent(task) ==
    [task |-> task.id, userId |-> task.user_id, prompt |-> task.prompt,
     status |-> "running"]

\* The steps of the processor change the server and nothing else
Processor(next) ==
    /\ server' = next
    /\ UNCHANGED <<probe, model, activeTab, messages, sub, sink, isLoading, uiMessages,
                   faults, nextCallId, callsLeft, partsLeft, clearsLeft>>

\* CronJob fires fn: const tasks = await store.getPendingTasks()
FnStart ==
    /\ server.fn.pc # "loop"
    /\ server.runsLeft > 0
    /\ LET tasks == getPendingTasks(server.tasks, server.clock)
       IN Processor([server EXCEPT
                        !.runsLeft = @ - 1,
                        !.fn = [pc |-> IF tasks = <<>> THEN "done" ELSE "loop",
                                tasks |-> tasks, i |-> 1,
                                base |-> Len(server.agents),
                                at |-> server.clock]])

\* One turn of `for (const task of tasks)`: sendAt, executeAgent, updateTask
FnTask(srv) ==
    LET task == srv.fn.tasks[srv.fn.i]
    IN IF ~ValidCron(task.schedule)
       THEN [srv EXCEPT !.fn.pc = "thrown"]
       ELSE [srv EXCEPT
                !.agents = Append(@, executeAgent(task)),
                !.tasks = updateTask(@, task.id, sendAt(task.schedule, srv.clock)),
                !.fn.i = @ + 1,
                !.fn.pc = IF srv.fn.i = Len(srv.fn.tasks) THEN "done" ELSE "loop"]
FnStep ==
    /\ server.fn.pc = "loop"
    /\ Processor(FnTask(server))

\* An agent settles: agent.execute ends, or something in executeAgent rejects
AgentSettles(k, status) ==
    /\ k \in 1 .. Len(server.agents)
    /\ server.agents[k].status = "running"
    /\ Processor([server EXCEPT !.agents[k].status = status])

\* A minute passes; requests are handled between the runs of fn
Tick ==
    /\ server.fn.pc # "loop"
    /\ server.clock < MaxClock
    /\ Processor([server EXCEPT !.clock = @ + 1])
CronBodies ==
    { [valid |-> TRUE, cron |-> CronEveryMinute, instruction |-> "p1"],
      [valid |-> TRUE, cron |-> CronEveryOther, instruction |-> "p2"],
      [valid |-> TRUE, cron |-> "soon", instruction |-> "p3"] }
CronSchedule ==
    /\ server.fn.pc # "loop"
    /\ Len(server.tasks) < MaxTasks
    /\ \E header \in {Header("u1"), Header("u2")}, body \in CronBodies :
          TasksSchedule(header, body)

\* ----------------------------------------------------------- specifications
InitWith(calls, parts) ==
    /\ model \in BOOLEAN
    /\ activeTab \in BOOLEAN
    /\ messages = <<>>
    /\ sub = [s \in Subs |-> IdleSub]
    /\ sink = <<>>
    /\ isLoading = FALSE
    /\ uiMessages = <<>>
    /\ faults = {}
    /\ nextCallId = 1
    /\ callsLeft = calls
    /\ partsLeft = parts
    /\ clearsLeft = MaxClears
    /\ server = ServerInit

\* One submission, every kind of stream part, a bounded number of parts.
Init == InitWith(MaxCalls, MaxParts) /\ probe = <<>>

Next ==
    \/ SendChatMessage(1)
    \/ ScreenshotDone(1)
    \/ ContextDone(1)
    \/ TextDelta(1)
    \/ ToolCall(1)
    \/ ToolResult(1)
    \/ ToolError(1)
    \/ ErrorPart(1)
    \/ StreamEnd(1)
    \/ StreamThrow(1)

Spec == Init /\ [][Next]_vars

\* Submissions that overlap or follow each other, and clears at any time.
InitConc == InitWith(MaxConcCalls, MaxConcParts) /\ probe = <<>>

ConcScreenshot(s) == ScreenshotOf(s, "data:image")
ConcContext(s) == ContextOf(s, TRUE)
ConcToolCall(s) == ToolCallOf(s, PlainCall)
ConcToolResult(s) == ToolResultOf(s, "ok")
ConcThrow(s) == StreamThrowOf(s, [isError |-> TRUE, message |-> <<"Network", "TIMEOUT">>])

NextConc ==
    \/ \E s \in Subs : SendChatMessage(s)
    \/ \E s \in Subs : ConcScreenshot(s)
    \/ \E s \in Subs : ConcContext(s)
    \/ \E s \in Subs : TextDelta(s)
    \/ \E s \in Subs : ConcToolCall(s)
    \/ \E s \in Subs : ConcToolResult(s)
    \/ \E s \in Subs : StreamEnd(s)
    \/ \E s \in Subs : ConcThrow(s)
    \/ ClearMessages

SpecConc == InitConc /\ [][NextConc]_vars

\* One submission whose every round may announce one valid tool call, so that the
\* round cap is reached.
InitCap == InitWith(MAX_STEPS, MaxCapParts) /\ probe = <<>>

CapToolCall(s) == ~sub[s].hasToolCalls /\ ToolCallOf(s, PlainCall)

NextCap ==
    \/ SendChatMessage(1)
    \/ ScreenshotDone(1)
    \/ ContextDone(1)
    \/ TextDelta(1)
    \/ CapToolCall(1)
    \/ ToolResult(1)
    \/ ErrorPart(1)
    \/ StreamEnd(1)
    \/ StreamThrow(1)

SpecCap == InitCap /\ [][NextCap]_vars

\* The tools' execute functions alone: a run of up to MaxExecs executions, each
\* of any tool against any outcome of the sync server.
InitExec == InitWith(0, 0) /\ probe = <<>>

ExecuteTool ==
    /\ Len(probe) < MaxExecs
    /\ \E toolName \in ToolNames, outcome \in ServerOutcomes :
          probe' = Append(probe, [toolName |-> toolName, outcome |-> outcome,
                                  result |-> Execute(toolName, outcome)])
    /\ UNCHANGED <<server, model, activeTab, messages, sub, sink, isLoading, uiMessages,
                   faults, nextCallId, callsLeft, partsLeft, clearsLeft>>

NextExec == ExecuteTool

SpecExec == InitExec /\ [][NextExec]_vars

\* getErrorMessage alone: the error is any value whose message has up to
\* MaxWords words, an Error or not.
ErrorWords ==
    {"401", "UNAUTHORIZED", "429", "Rate Limit", "Network", "fetch",
     "ECONNREFUSED", "Timeout", "TIMEOUT", "Boom"}
Errors ==
    [isError : BOOLEAN,
     message : UNION {[1 .. n -> ErrorWords] : n \in 0 .. MaxWords}]

InitClassify ==
    /\ InitWith(0, 0)
    /\ probe \in {[error |-> e, classified |-> FALSE, result |-> ""] : e \in Errors}

Classify ==
    /\ ~probe.classified
    /\ probe' = [probe EXCEPT !.classified = TRUE,
                              !.result = getErrorMessage(probe.error)]
    /\ UNCHANGED <<server, model, activeTab, messages, sub, sink, isLoading, uiMessages,
                   faults, nextCallId, callsLeft, partsLeft, clearsLeft>>

NextClassify == Classify

SpecClassify == InitClassify /\ [][NextClassify]_vars


\* Submissions one after the other: a call is made when no other is in flight,
\* and there is no clear.
InitSeq == InitWith(MaxSeqCalls, MaxSeqParts) /\ probe = <<>>

SeqSend(s) ==
    /\ \A t \in Subs : sub[t].pc \in {"idle", "done"}
    /\ SendChatMessage(s)

NextSeq ==
    \/ \E s \in Subs : SeqSend(s)
    \/ \E s \in Subs : ConcScreenshot(s)
    \/ \E s \in Subs : ConcContext(s)
    \/ \E s \in Subs : TextDelta(s)
    \/ \E s \in Subs : ConcToolCall(s)
    \/ \E s \in Subs : ToolResult(s)
    \/ \E s \in Subs : StreamEnd(s)
    \/ \E s \in Subs : ConcThrow(s)

SpecSeq == InitSeq /\ [][NextSeq]_vars


\* The sync server alone: up to MaxRequests requests, each to any route with any
\* header, body and path parameter.
InitServer == InitWith(0, 0) /\ probe = <<>> /\ ~model /\ ~activeTab

NextServer ==
    \/ \E header \in Headers, body \in SyncBodies : SyncPost(header, body)
    \/ \E header \in Headers : SyncGet(header)
    \/ \E header \in Headers, body \in ScheduleBodies : TasksSchedule(header, body)
    \/ \E header \in Headers : TasksList(header)
    \/ \E header \in Headers, id \in IdParams : TasksDelete(header, id)

SpecServer == InitServer /\ [][NextServer]_vars


\* The scheduled-task processor: tasks are scheduled through the route, minutes
\* pass, CronJob fires fn up to MaxRuns times, and the agents settle at any time.
InitCron == InitWith(0, 0) /\ probe = <<>> /\ ~model /\ ~activeTab

NextCron ==
    \/ CronSchedule
    \/ Tick
    \/ FnStart
    \/ FnStep
    \/ \E k \in 1 .. MaxTasks * MaxRuns, status \in {"finished", "failed"} :
          AgentSettles(k, status)

SpecCron == InitCron /\ [][NextCron]_vars

\* processStream alone, run twice over the same parts, each time on a store
\* holding the same messages.
ReplayStores ==
    { <<>>,
      <<Msg("user", Str("q1"))>>,
      <<Msg("user", Str("q1")), Msg("assistant", Str("x"))>> }

\* The tool-call ids announced, and answered, in a sequence of parts
CallIdsIn(parts) ==
    {parts[i].toolCallId : i \in {i \in 1 .. Len(parts) : parts[i].type = "tool-call"}}
ResultIdsIn(parts) ==
    {parts[i].toolCallId : i \in {i \in 1 .. Len(parts) : parts[i].type = "tool-result"}}

\* The parts the stream can yield after `parts`
NextParts(parts) ==
    {[type |-> "text-delta", text |-> Fragment(Len(parts) + 1)]}
    \cup {[type |-> "error"]}
    \cup {[type |-> "tool-call", toolCallId |-> Cardinality(CallIdsIn(parts)) + 1,
           toolName |-> PlainCall.toolName, input |-> PlainCall.input]}
    \cup {[type |-> "tool-result", toolCallId |-> id,
           toolName |-> PlainCall.toolName,
           output |-> Execute(PlainCall.toolName, outcome)] :
              id \in CallIdsIn(parts) \ ResultIdsIn(parts), outcome \in RunOutcomes}

\* processStream: the body of its loop, for one part
OnPart(msgs, r, id, part) ==
    IF part.type = "text-delta" THEN OnTextDelta(msgs, r, id, part.text)
    ELSE IF part.type = "tool-call"
    THEN OnToolCall(msgs, r, [toolCallId |-> part.toolCallId,
                              toolName |-> part.toolName, input |-> part.input])
    ELSE IF part.type = "tool-result"
    THEN OnToolResult(msgs, r, [toolCallId |-> part.toolCallId,
                                toolName |-> part.toolName, output |-> part.output])
    ELSE OnOtherPart(msgs, r)

\* processStream: its loop over the parts
RECURSIVE processStream(_, _, _, _)
processStream(msgs, r, id, parts) ==
    IF parts = <<>> THEN [msgs |-> msgs, r |-> r, out |-> <<>>]
    ELSE LET n == OnPart(msgs, r, id, Head(parts))
             rest == processStream(n.msgs, n.r, id, Tail(parts))
         IN [msgs |-> rest.msgs, r |-> rest.r, out |-> n.out \o rest.out]

InitReplay ==
    /\ InitWith(0, 0)
    /\ probe \in {[parts |-> <<>>, store |-> m, runs |-> <<>>] : m \in ReplayStores}

\* The stream to process gets one more part
AddPart ==
    /\ probe.runs = <<>>
    /\ Len(probe.parts) < MaxReplayParts
    /\ \E part \in NextParts(probe.parts) :
          probe' = [probe EXCEPT !.parts = Append(@, part)]
    /\ UNCHANGED <<server, model, activeTab, messages, sub, sink, isLoading, uiMessages,
                   faults, nextCallId, callsLeft, partsLeft, clearsLeft>>

\* One call of processStream on a store holding probe.store; what it returns and
\* the store it leaves are recorded.
Replay ==
    /\ Len(probe.runs) < 2
    /\ LET n == processStream(probe.store, BeginRound(sub[1], probe.store),
                              MessageId(1), probe.parts)
       IN /\ Commit(1, n.r, n.msgs, n.out, isLoading)
          /\ probe' = [probe EXCEPT !.runs =
                          Append(@, [messages |-> n.msgs,
                                     newMessages |-> n.r.newMessages,
                                     hasToolCalls |-> n.r.hasToolCalls])]
    /\ UNCHANGED <<server, model, activeTab, faults, nextCallId, callsLeft, partsLeft,
                   clearsLeft>>

NextReplay == AddPart \/ Replay

SpecReplay == InitReplay /\ [][NextReplay]_vars


\* ------------------------------------------------------------- properties
\* The chat-response events with isComplete = true sent for submission s
Completions(s) ==
    Cardinality({i \in 1 .. Len(sink) :
                    /\ sink[i].channel = "chat-response"
                    /\ sink[i].messageId = MessageId(s)
                    /\ sink[i].isComplete})
\* The await of a stream part of submission s has rejected
Thrown(s) == \E f \in faults : f.sub = s /\ f.kind = "ProviderFault"
\* Submission s has ended and its last round announced a tool call: the round cap
\* stopped the loop
CapStopped(s) == sub[s].pc = "done" /\ sub[s].hasToolCalls /\ ~Thrown(s)

\* C1: a call of sendChatMessage that has returned has sent exactly one
\* chat-response with isComplete = true, and one that has not returned has sent
\* none: on every path (no model, natural stop, round cap, rejected await) the
\* count is one, never zero, never two.
C1_ExactlyOneCompletion ==
    \A s \in Subs : Completions(s) = IF sub[s].pc = "done" THEN 1 ELSE 0

\* C1 witness: a stream that rejects in a later round, completion sent once
C1_Witness ==
    /\ sub[1].pc = "done"
    /\ Thrown(1)
    /\ sub[1].stepCount >= 2
    /\ Completions(1) = 1

\* C2: streamText is called at most MAX_STEPS times per submission; a loop whose
\* every round announced a tool call stops after round MAX_STEPS and the last
\* thing sent is the completion signal.
C2_RoundCap ==
    \A s \in Subs :
        /\ sub[s].invoked <= MAX_STEPS
        /\ CapStopped(s) =>
              /\ sub[s].invoked = MAX_STEPS
              /\ sub[s].stepCount = MAX_STEPS
              /\ sink[Len(sink)] = Response(MessageId(s), "", TRUE)

\* C2 witness: ten rounds, each with a tool call, and the loop has stopped
C2_Witness == CapStopped(1) /\ sub[1].invoked = MAX_STEPS


\* C3: a submission's user message, once pushed, stays in the store while no
\* clear has run: no event of another submission's stream overwrites or displaces
\* it.
C3_NoInterleaving ==
    \A s \in Subs :
        (sub[s].pc \notin {"idle", "screenshot"} /\ clearsLeft = MaxClears) =>
            \E i \in 1 .. Len(messages) :
                messages[i] = UserMessage(s, sub[s].screenshot)

\* The loop of submission s has stopped after a round without a tool call
NaturalStop(s) ==
    /\ sub[s].pc = "done"
    /\ sub[s].invoked > 0
    /\ ~sub[s].hasToolCalls
    /\ ~Thrown(s)

\* C4 as stated: a round without a tool call adds exactly one assistant message,
\* for any number of text fragments, zero included.
C4_Original ==
    \A s \in Subs :
        NaturalStop(s) =>
            /\ Len(messages) = sub[s].roundLen + 1
            /\ messages[Len(messages)].role = "assistant"

\* C4 amended: a round without a tool call adds one assistant message, holding
\* the concatenated text, when it has at least one text fragment and no message
\* when it has none; and no step of a round without a tool call calls streamText
\* again.
C4_GrowthByFragments ==
    \A s \in Subs :
        NaturalStop(s) =>
            IF sub[s].fragments > 0
            THEN /\ Len(messages) = sub[s].roundLen + 1
                 /\ messages[Len(messages)] =
                        Msg("assistant", Str(sub[s].currentStepText))
            ELSE Len(messages) = sub[s].roundLen
C4_NoFurtherInvocation ==
    \A s \in Subs :
        (sub[s].pc = "stream" /\ ~sub[s].hasToolCalls /\ ~sub'[s].hasToolCalls) =>
            sub'[s].invoked = sub[s].invoked
C4_Amended == []C4_GrowthByFragments /\ [][C4_NoFurtherInvocation]_vars

\* C4 witness: a round of two text fragments and no tool call has ended
C4_Witness == NaturalStop(1) /\ sub[1].fragments = 2

\* Every round of submission s has ended without a rejected await
RoundsEnded(s) == sub[s].pc = "done" /\ ~Thrown(s)
IsToolMessageFor(m, id) ==
    /\ m.role = "tool"
    /\ m.content.kind = "parts"
    /\ Len(m.content.parts) = 1
    /\ m.content.parts[1].type = "tool-result"
    /\ m.content.parts[1].toolCallId = id
ToolCallIdsOf(m) ==
    IF m.role = "assistant" /\ m.content.kind = "parts"
    THEN {m.content.parts[k].toolCallId :
            k \in {k \in 1 .. Len(m.content.parts) :
                      m.content.parts[k].type = "tool-call"}}
    ELSE {}

\* C5: when the rounds have ended, every ToolCall part stored in an assistant
\* message has a tool message with its toolCallId after that message, and the
\* tool messages are in the order in which the calls were announced (ids are
\* given in announcement order).
C5_EveryCallHasResult ==
    \A s \in Subs :
        RoundsEnded(s) =>
            /\ \A i \in 1 .. Len(messages) :
                   \A id \in ToolCallIdsOf(messages[i]) :
                       \E j \in (i + 1) .. Len(messages) :
                           IsToolMessageFor(messages[j], id)
            /\ \A j1, j2 \in 1 .. Len(messages) :
                   (/\ j1 < j2
                    /\ messages[j1].role = "tool"
                    /\ messages[j2].role = "tool") =>
                       messages[j1].content.parts[1].toolCallId
                           < messages[j2].content.parts[1].toolCallId

\* The chat-response events sent for submission s, in order
Responses(s) ==
    LET Mine(e) == e.channel = "chat-response" /\ e.messageId = MessageId(s)
    IN SelectSeq(sink, Mine)

\* C6: with no model, a call that has returned has appended the user message and
\* nothing else, has never called streamText, and has sent exactly one
\* chat-response: the configuration error with isComplete = true.
C6_NotConfigured ==
    ~model =>
        \A s \in Subs :
            /\ sub[s].invoked = 0
            /\ sub[s].pc = "done" =>
                  /\ Len(messages) = sub[s].startLen + 1
                  /\ messages[Len(messages)] = UserMessage(s, sub[s].screenshot)
                  /\ \A i \in 1 .. Len(messages) : messages[i].role # "assistant"
                  /\ Responses(s) = <<Response(MessageId(s), NotConfiguredText, TRUE)>>

\* C6 witness: no model, a tab, and the call has returned
C6_Witness == ~model /\ activeTab /\ sub[1].pc = "done" /\ Len(messages) = 1


\* C7: when an await of the round loop has rejected and the call has returned,
\* the classified message of that fault is the content of an assistant message
\* the renderer shows, and the completion signal has been sent.
C7_FaultSurfaced ==
    \A s \in Subs :
        \A f \in faults :
            (f.sub = s /\ f.kind = "ProviderFault" /\ sub[s].pc = "done") =>
                /\ Completions(s) = 1
                /\ \E i \in 1 .. Len(uiMessages) :
                       /\ uiMessages[i].role = "assistant"
                       /\ uiMessages[i].content = getErrorMessage(f.error)

\* A chat-response with an error text for submission s, followed by (or being)
\* a completion signal for s
ErrorShown(s) ==
    \E i \in 1 .. Len(sink) :
        /\ sink[i].channel = "chat-response"
        /\ sink[i].messageId = MessageId(s)
        /\ sink[i].content \in
               {NotConfiguredText, MsgNotError, MsgAuth, MsgRate, MsgNetwork,
                MsgTimeout, MsgUnknown}
        /\ \E j \in i .. Len(sink) :
               /\ sink[j].channel = "chat-response"
               /\ sink[j].messageId = MessageId(s)
               /\ sink[j].isComplete

\* C8: no fault is dropped: when the call has returned, every failure of the
\* submission has a tool message with its toolCallId in the store, or an error
\* message was sent to the renderer and followed by a completion signal.
C8_NoFaultDropped ==
    \A s \in Subs :
        sub[s].pc = "done" =>
            \A f \in faults :
                f.sub = s =>
                    \/ \E i \in 1 .. Len(messages) :
                           IsToolMessageFor(messages[i], f.toolCallId)
                    \/ ErrorShown(s)

\* A tool message for call id whose result value is a failure object
IsFailedResultFor(m, id) ==
    /\ IsToolMessageFor(m, id)
    /\ m.content.parts[1].output.type = "json"
    /\ ~m.content.parts[1].output.value.success

\* C9: once execute has returned {success: false, message} for a call, the store
\* holds, in this order, the user message, an assistant message carrying that
\* ToolCall, and the tool message with the failure object.
C9_FailedCallInHistory ==
    \A f \in faults :
        f.kind = "ToolExecutionFailure" =>
            \E i, j, k \in 1 .. Len(messages) :
                /\ i < j
                /\ j < k
                /\ messages[i] = UserMessage(f.sub, sub[f.sub].screenshot)
                /\ f.toolCallId \in ToolCallIdsOf(messages[j])
                /\ IsFailedResultFor(messages[k], f.toolCallId)

\* C10: a call whose input fails the schema is answered, by the end of its
\* round, with a tool message holding {success: false, message}.
C10_ValidationFailureReported ==
    \A f \in faults :
        (/\ f.kind = "ToolValidationFailure"
         /\ \A c \in sub[f.sub].outstanding : c.toolCallId # f.toolCallId) =>
            \E k \in 1 .. Len(messages) : IsFailedResultFor(messages[k], f.toolCallId)


\* C11: execute never throws: whatever the sync server does, the result has a
\* boolean success field, and when the response is not ok or an await rejects,
\* success is false and there is a message.
C11_ExecuteNeverThrows ==
    \A i \in 1 .. Len(probe) :
        LET res == probe[i].result
        IN /\ "success" \in DOMAIN res
           /\ res.success \in BOOLEAN
           /\ ~res.success => "message" \in DOMAIN res
           /\ probe[i].outcome \in {"notok", "notok-badbody", "reject"} =>
                  ~res.success

\* C11 witness: list_scheduled_tasks could not read the body of an ok response,
\* then a tool's request was rejected
C11_Witness ==
    /\ Len(probe) = 2
    /\ probe[1].toolName = "list_scheduled_tasks"
    /\ probe[1].outcome = "ok-badbody"
    /\ ~probe[1].result.success
    /\ probe[2].outcome = "reject"

\* The spellings of a marker, and the categories in priority order
CaseVariants(marker) ==
    CASE marker = "unauthorized" -> {"unauthorized", "Unauthorized", "UNAUTHORIZED"}
      [] marker = "rate limit" -> {"rate limit", "Rate Limit", "RATE LIMIT"}
      [] marker = "network" -> {"network", "Network", "NETWORK"}
      [] marker = "fetch" -> {"fetch", "Fetch", "FETCH"}
      [] marker = "econnrefused" -> {"econnrefused", "ECONNREFUSED"}
      [] marker = "timeout" -> {"timeout", "Timeout", "TIMEOUT"}
      [] OTHER -> {marker}
Markers ==
    {"401", "unauthorized", "429", "rate limit", "network", "fetch",
     "econnrefused", "timeout"}
Contains(message, marker) ==
    \E i \in 1 .. Len(message) : message[i] \in CaseVariants(marker)
ExpectedString(message) ==
    IF Contains(message, "401") \/ Contains(message, "unauthorized") THEN MsgAuth
    ELSE IF Contains(message, "429") \/ Contains(message, "rate limit") THEN MsgRate
    ELSE IF \/ Contains(message, "network")
            \/ Contains(message, "fetch")
            \/ Contains(message, "econnrefused")
    THEN MsgNetwork
    ELSE IF Contains(message, "timeout") THEN MsgTimeout
    ELSE MsgUnknown
SameUpToCase(m1, m2) ==
    /\ Len(m1) = Len(m2)
    /\ \A i \in 1 .. Len(m1) :
           \/ m1[i] = m2[i]
           \/ \E marker \in Markers :
                  m1[i] \in CaseVariants(marker) /\ m2[i] \in CaseVariants(marker)

\* C12: for an Error, the string returned is that of the first category, in the
\* order Unauthorized, RateLimited, NetworkUnavailable, Timeout, Unknown, of
\* which the message contains a marker in any letter case; and every Error whose
\* message differs only in letter case gets the same string.
C12_FirstMatchWins ==
    (probe.classified /\ probe.error.isError) =>
        /\ probe.result = ExpectedString(probe.error.message)
        /\ \A e \in Errors :
               (e.isError /\ SameUpToCase(e.message, probe.error.message)) =>
                   getErrorMessage(e) = probe.result

\* C12 witness: a message with an upper-case timeout marker before a network
\* marker has been classified as a network error
C12_Witness ==
    /\ probe.classified
    /\ probe.error = [isError |-> TRUE, message |-> <<"TIMEOUT", "Network">>]
    /\ probe.result = MsgNetwork

\* C13: every fault, an Error or not, gets the fixed string of one of the five
\* categories, so at most five strings are produced.
C13_FiveStrings ==
    probe.classified =>
        probe.result \in {MsgAuth, MsgRate, MsgNetwork, MsgTimeout, MsgUnknown}


\* The events a step sends, and the snapshots among them
NewEvents == SubSeq(sink', Len(sink) + 1, Len(sink'))
NewSnapshots ==
    LET IsUpdate(e) == e.channel = "chat-messages-updated"
    IN SelectSeq(NewEvents, IsUpdate)

\* C14: a step that changes the message list (push of the user message, push or
\* replacement of an assistant message, push of a tool message, clear) sends,
\* within the same step, exactly one chat-messages-updated event, and every
\* snapshot a step sends is the list as the step leaves it.
C14_MutationNotified ==
    /\ messages' # messages => Len(NewSnapshots) = 1
    /\ \A i \in 1 .. Len(NewSnapshots) : NewSnapshots[i].messages = messages'
C14_SnapshotAfterMutation == [][C14_MutationNotified]_vars

\* C14 witness: a list holding a tool message was notified, and later a clear
C14_Witness ==
    /\ Len(sink) > 1
    /\ sink[Len(sink)] = Updated(<<>>)
    /\ \E i \in 1 .. Len(sink) :
           /\ sink[i].channel = "chat-messages-updated"
           /\ \E k \in 1 .. Len(sink[i].messages) : sink[i].messages[k].role = "tool"


\* The isComplete = false chat-response events a step sends for submission s
NewChunks(s) ==
    LET Mine(e) ==
            /\ e.channel = "chat-response"
            /\ e.messageId = MessageId(s)
            /\ ~e.isComplete
    IN SelectSeq(NewEvents, Mine)

\* C15: the step of a text-delta part sends exactly one chat-response with
\* isComplete = false whose content is the text of that part, and no other step
\* sends one; the chat-response with isComplete = true is sent when the call
\* returns and is the last chat-response of the submission.
C15_ChunkPerFragment ==
    \A s \in Subs :
        IF sub'[s].fragments = sub[s].fragments + 1
        THEN NewChunks(s) = <<Response(MessageId(s), Fragment(partsLeft), FALSE)>>
        ELSE NewChunks(s) = <<>>
C15_CompletionLast ==
    \A s \in Subs :
        LET R == Responses(s)
        IN /\ \A i \in 1 .. Len(R) : R[i].isComplete <=> (i = Len(R) /\ sub[s].pc = "done")
           /\ sub[s].pc = "done" => Len(R) >= 1
C15_StreamChunks == [][C15_ChunkPerFragment]_vars /\ []C15_CompletionLast

\* C15 witness: two fragments, "b" then "a", were sent one by one and followed
\* by the completion
C15_Witness ==
    Responses(1) = <<Response(MessageId(1), "b", FALSE),
                     Response(MessageId(1), "a", FALSE),
                     Response(MessageId(1), "", TRUE)>>


\* The concatenation of the contents of a sequence of chat-response events
RECURSIVE ConcatContent(_)
ConcatContent(events) ==
    IF events = <<>> THEN ""
    ELSE Head(events).content \o ConcatContent(Tail(events))

\* Submission s was answered in one round by text alone, and no later call has
\* been made
TextOnly(s) ==
    /\ sub[s].pc = "done"
    /\ ~Thrown(s)
    /\ sub[s].invoked = 1
    /\ ~sub[s].hasToolCalls
    /\ sub[s].fragments >= 1
    /\ \A t \in Subs : t > s => sub[t].pc = "idle"

\* C16: after a submission answered by text alone, the store is the history the
\* call found, the user message, and one assistant message whose content is the
\* fragments sent to the renderer, concatenated in order; and the completion
\* event is the last event in the sink.
C16_TextOnlyAnswer ==
    \A s \in Subs :
        TextOnly(s) =>
            LET R == Responses(s)
            IN /\ messages =
                      sub[s].history \o
                          <<UserMessage(s, sub[s].screenshot),
                            Msg("assistant",
                                Str(ConcatContent(SubSeq(R, 1, Len(R) - 1))))>>
               /\ sink[Len(sink)] = Response(MessageId(s), "", TRUE)

\* C16 witness: the second submission found a history with a tool call and was
\* answered by two fragments
C16_Witness ==
    /\ TextOnly(2)
    /\ sub[2].fragments = 2
    /\ Len(sub[2].history) = 3
    /\ sub[2].history[3].role = "tool"


\* C17: the user message a call has pushed is a bare string, the submitted text,
\* when no screenshot was captured (always so without a tab), and otherwise the
\* two parts image, text in this order.
C17_UserMessageShape ==
    \A s \in Subs :
        sub[s].pc \notin {"idle", "screenshot"} =>
            LET m == messages[sub[s].startLen + 1]
                shot == sub[s].screenshot
            IN /\ m.role = "user"
               /\ ~activeTab => shot = NoScreenshot
               /\ IF shot = NoScreenshot
                  THEN m.content = [kind |-> "string", text |-> RequestMessage(s)]
                  ELSE m.content =
                           [kind |-> "parts",
                            parts |-> <<[type |-> "image", image |-> shot],
                                        [type |-> "text", text |-> RequestMessage(s)]>>]

\* C17 witness: a screenshot was captured and the call has returned
C17_Witness ==
    /\ activeTab
    /\ sub[1].pc = "done"
    /\ sub[1].screenshot # NoScreenshot
    /\ messages[1].content.kind = "parts"


\* C18: a clearMessages step leaves the list empty, sends exactly one event, the
\* chat-messages-updated with the empty list, and getMessages then returns the
\* empty list.
C18_ClearStep ==
    clearsLeft' < clearsLeft =>
        /\ messages' = <<>>
        /\ NewEvents = <<Updated(<<>>)>>
        /\ getMessages' = <<>>
C18_ClearEmpties == [][C18_ClearStep]_vars

\* C18 witness: the clear came right after a snapshot of two or more messages
C18_Witness ==
    /\ clearsLeft < MaxClears
    /\ messages = <<>>
    /\ Len(sink) > 1
    /\ sink[Len(sink)] = Updated(<<>>)
    /\ sink[Len(sink) - 1].channel = "chat-messages-updated"
    /\ Len(sink[Len(sink) - 1].messages) >= 2


\* C19: two calls of processStream over the same parts, each on a store holding
\* the same messages, leave the same message list and return the same
\* newMessages and the same hasToolCalls.
C19_Deterministic ==
    Len(probe.runs) = 2 => probe.runs[1] = probe.runs[2]

\* C19 witness: both calls have processed a tool call, a text fragment and a
\* failed tool result on a store that was not empty
C19_Witness ==
    /\ Len(probe.runs) = 2
    /\ probe.store # <<>>
    /\ Len(probe.parts) = 3
    /\ probe.parts[1].type = "tool-call"
    /\ probe.parts[2].type = "text-delta"
    /\ probe.parts[3].type = "tool-result"
    /\ ~probe.parts[3].output.success


\* The texts the code uses to report an error
ErrorTexts ==
    {NotConfiguredText, MsgNotError, MsgAuth, MsgRate, MsgNetwork, MsgTimeout,
     MsgUnknown}
\* The texts a stored message holds
TextsOf(m) ==
    IF m.content.kind = "string" THEN {m.content.text}
    ELSE {m.content.parts[k].text :
            k \in {k \in 1 .. Len(m.content.parts) : m.content.parts[k].type = "text"}}

\* C20: when the loop has stopped at the round cap, no chat-response of the
\* submission and no stored message holds an error text, and the completion is
\* the chat-response with empty content and isComplete = true, the same as after
\* a round without tool calls.
C20_CapIsNotAnError ==
    \A s \in Subs :
        LET R == Responses(s)
        IN /\ CapStopped(s) =>
                  /\ \A i \in 1 .. Len(R) : R[i].content \notin ErrorTexts
                  /\ \A i \in 1 .. Len(messages) : TextsOf(messages[i]) \cap ErrorTexts = {}
                  /\ R[Len(R)] = Response(MessageId(s), "", TRUE)
           /\ NaturalStop(s) => R[Len(R)] = Response(MessageId(s), "", TRUE)

\* C20 witness: ten rounds with a tool call each, one text fragment among them
C20_Witness ==
    /\ CapStopped(1)
    /\ sub[1].stepCount = MAX_STEPS
    /\ Len(Responses(1)) = 2


\* C21: while a round of submission s is streaming, the list its streamText call
\* was given is the system message followed by the messages the store held when
\* the round began (positions 1 .. roundLen, which the round does not write).
C21_OutboundIsStore ==
    \A s \in Subs :
        sub[s].pc = "stream" =>
            /\ sub[s].currentMessages[1].role = "system"
            /\ Tail(sub[s].currentMessages) = SubSeq(messages, 1, sub[s].roundLen)


\* The step is a tool-call part of submission s
ToolCallStep(s) == Len(sub'[s].roundCalls) = Len(sub[s].roundCalls) + 1
\* The assistant message of a text and tool calls
CallMessage(text, calls) ==
    [role |-> "assistant",
     content |->
        [kind |-> "parts",
         parts |->
            (IF text # "" THEN <<[type |-> "text", text |-> text]>> ELSE <<>>)
            \o [i \in 1 .. Len(calls) |->
                   [type |-> "tool-call", toolCallId |-> calls[i].toolCallId,
                    toolName |-> calls[i].toolName, input |-> calls[i].input]]]]
\* The latest assistant entry of a list equals m
LatestAssistantIs(list, m) ==
    \E i \in 1 .. Len(list) :
        /\ list[i] = m
        /\ \A j \in (i + 1) .. Len(list) : list[j].role # "assistant"
\* After the step, the in-progress assistant message of s, in the store and in
\* newMessages, is made of the accumulated text and of `calls`
InProgressIs(s, calls) ==
    LET m == CallMessage(sub'[s].currentStepText, calls)
    IN /\ Len(messages') > sub'[s].messageIndex
       /\ messages'[sub'[s].messageIndex + 1] = m
       /\ LatestAssistantIs(sub'[s].newMessages, m)

\* C22 as stated: after a tool-call part the in-progress assistant message holds
\* the accumulated text and every tool call announced so far in the round.
C22_OriginalStep ==
    \A s \in Subs : ToolCallStep(s) => InProgressIs(s, sub'[s].roundCalls)
C22_Original == [][C22_OriginalStep]_vars

\* C22 amended: after a tool-call part the in-progress assistant message holds the
\* accumulated text and the tool calls announced since the round's latest
\* tool-result part (since the round began when there was none), in order.
C22_AmendedStep ==
    \A s \in Subs :
        ToolCallStep(s) =>
            InProgressIs(s, SubSeq(sub'[s].roundCalls, sub'[s].resultAt + 1,
                                   Len(sub'[s].roundCalls)))
C22_Amended == [][C22_AmendedStep]_vars

\* C22 witness: a second tool call came after the first one's result and a text
\* fragment
C22_Witness ==
    /\ sub[1].pc = "stream"
    /\ Len(sub[1].roundCalls) = 2
    /\ sub[1].resultAt = 1
    /\ sub[1].currentStepText # ""
    /\ Len(sub[1].currentToolCalls) = 1
    /\ messages[Len(messages)] =
           CallMessage(sub[1].currentStepText, <<sub[1].roundCalls[2]>>)


\* What the execute of a tool can return
ExecuteResults(toolName) == {Execute(toolName, o) : o \in ServerOutcomes}
\* The store's tool messages
ToolMessages == {i \in 1 .. Len(messages) : messages[i].role = "tool"}
\* The execute of call id returned a failure object
ExecuteFailed(id) ==
    \E f \in faults : f.kind = "ToolExecutionFailure" /\ f.toolCallId = id

\* C23: every tool message of the store holds exactly one tool-result part whose
\* output is {type: "json", value} with value the object the tool's execute
\* returned, a success object or a failure object alike.
C23_ToolMessageShape ==
    \A i \in ToolMessages :
        LET c == messages[i].content
        IN /\ c.kind = "parts"
           /\ Len(c.parts) = 1
           /\ c.parts[1].type = "tool-result"
           /\ DOMAIN c.parts[1].output = {"type", "value"}
           /\ c.parts[1].output.type = "json"
           /\ c.parts[1].output.value \in ExecuteResults(c.parts[1].toolName)
           /\ c.parts[1].output.value.success = ~ExecuteFailed(c.parts[1].toolCallId)
\* C23 witness: the store holds the tool message of a success and of a failure
C23_Witness ==
    /\ \E i \in ToolMessages : messages[i].content.parts[1].output.value.success
    /\ \E i \in ToolMessages : ~messages[i].content.parts[1].output.value.success


\* The step is a tool-result part: a tool message is appended to the store
ToolResultStep ==
    /\ Len(messages') = Len(messages) + 1
    /\ SubSeq(messages', 1, Len(messages)) = messages
    /\ messages'[Len(messages')].role = "tool"
\* The step is a text-delta part of submission s
TextStep(s) == sub'[s].fragments = sub[s].fragments + 1
\* The text a message shows
ShownText(m) ==
    IF m.content.kind = "string" THEN m.content.text
    ELSE IF Len(m.content.parts) > 0 /\ m.content.parts[1].type = "text"
    THEN m.content.parts[1].text
    ELSE ""
\* The store's latest tool message (0 when there is none)
LastTool ==
    IF ToolMessages = {} THEN 0
    ELSE CHOOSE i \in ToolMessages : \A j \in ToolMessages : j <= i
\* The text stored after the latest tool message so far, all of it received after
\* that tool's result
TextSinceResult ==
    IF Len(messages) > LastTool THEN ShownText(messages[Len(messages)]) ELSE ""

\* C24: a tool-result part leaves the round's accumulated text empty; a text
\* fragment that comes later in the same round changes neither the tool message
\* nor anything before it, and is stored in an assistant message after the tool
\* message whose content is only the text received since the tool result: a new
\* message when the store ended with the tool message.
C24_Step ==
    \A s \in Subs :
        /\ (ToolResultStep /\ sub[s].pc = "stream") => sub'[s].currentStepText = ""
        /\ (TextStep(s) /\ sub[s].resultAt > 0) =>
              /\ SubSeq(messages', 1, LastTool) = SubSeq(messages, 1, LastTool)
              /\ Len(messages') = IF Len(messages) = LastTool THEN LastTool + 1
                                  ELSE Len(messages)
              /\ messages'[Len(messages')] =
                    [role |-> "assistant",
                     content |->
                        [kind |-> "string",
                         text |-> TextSinceResult \o Fragment(partsLeft)]]
C24_FreshAfterResult == [][C24_Step]_vars
\* C24 witness: text "b", a tool call and its result, then text "a" in a message
\* of its own
C24_Witness ==
    /\ Len(messages) = 4
    /\ sub[1].resultAt > 0
    /\ ShownText(messages[2]) = "b"
    /\ messages[3].role = "tool"
    /\ messages[4] = [role |-> "assistant",
                      content |-> [kind |-> "string", text |-> "a"]]


\* C25: in a step that is not a clear the store is appended to, or its last
\* element is replaced in place: its length never decreases and no other element
\* changes, moves or disappears.
C25_Step ==
    clearsLeft' = clearsLeft =>
        \/ /\ Len(messages') >= Len(messages)
           /\ SubSeq(messages', 1, Len(messages)) = messages
        \/ /\ Len(messages') = Len(messages)
           /\ \A i \in 1 .. (Len(messages) - 1) : messages'[i] = messages[i]
C25_AppendOnly == [][C25_Step]_vars


\* C26: while round 1 of a submission is being read, the outbound list it was
\* invoked with contains the user message of that submission (nothing ran between
\* the push of the user message and the first invocation).
C26_RoundOneHasUserMessage ==
    \A s \in Subs :
        (sub[s].pc = "stream" /\ sub[s].invoked = 1) =>
            \E i \in 1 .. Len(sub[s].currentMessages) :
                sub[s].currentMessages[i] = UserMessage(s, sub[s].screenshot)


\* The announced calls of submission s whose execute has been started and has not
\* completed: the valid ones whose tool-result part is still to come
InFlight(s) == {c \in sub[s].outstanding : Validates(c.toolName, c.input)}

\* C27: at no time are two tool execute calls in flight.
C27_OneExecuteAtATime ==
    \A s \in Subs : Cardinality(InFlight(s)) <= 1


\* Some snapshot sent so far shows, at one of the positions from..to, an assistant
\* message carrying the ToolCall part of id
CallWasStored(id, from, to) ==
    \E k \in 1 .. Len(sink) :
        /\ sink[k].channel = "chat-messages-updated"
        /\ \E i \in from .. to :
              /\ i <= Len(sink[k].messages)
              /\ id \in ToolCallIdsOf(sink[k].messages[i])

\* C28: a step that creates a message appends it at the end of the store, after
\* every message created before; and when the tool message of a tool-call id is
\* appended, an assistant message carrying the ToolCall part of that id has been
\* stored before it in the same round.
C28_Step ==
    /\ Len(messages') > Len(messages) =>
          /\ Len(messages') = Len(messages) + 1
          /\ SubSeq(messages', 1, Len(messages)) = messages
    /\ \A s \in Subs :
          (ToolResultStep /\ sub[s].pc = "stream") =>
              CallWasStored(messages'[Len(messages')].content.parts[1].toolCallId,
                            sub[s].roundLen + 1, Len(messages))
C28_StreamOrder == [][C28_Step]_vars
\* C28 witness: two calls announced, their results stored in the order they came
\* (2 before 1), both after the assistant message carrying the two ToolCall parts
C28_Witness ==
    /\ Len(messages) = 4
    /\ ToolCallIdsOf(messages[2]) = {1, 2}
    /\ IsToolMessageFor(messages[3], 2)
    /\ IsToolMessageFor(messages[4], 1)


\* C29: every tool message of the store is preceded by an assistant message that
\* still carries the ToolCall part of the same toolCallId.
C29_ToolCallKept ==
    \A k \in ToolMessages :
        \E j \in 1 .. (k - 1) :
            messages[k].content.parts[1].toolCallId \in ToolCallIdsOf(messages[j])


\* clearMessages has been called, and the position of its event in the sink
Cleared == clearsLeft < MaxClears
ClearAt ==
    CHOOSE k \in 0 .. Len(sink) :
        /\ k > 0 => sink[k] = Updated(<<>>)
        /\ \A j \in (k + 1) .. Len(sink) : sink[j] # Updated(<<>>)
\* The text fragments of submission s received after the clear, in order
ChunksAfterClear(s) ==
    LET Mine(e) ==
            /\ e.channel = "chat-response"
            /\ e.messageId = MessageId(s)
            /\ ~e.isComplete
    IN SelectSeq(SubSeq(sink, ClearAt + 1, Len(sink)), Mine)
\* The texts made of fragments received after the clear only
PostClearTexts ==
    UNION {{ConcatContent(SubSeq(ChunksAfterClear(s), i, j)) :
               i, j \in 1 .. Len(ChunksAfterClear(s))} : s \in Subs}
AssistantStrings ==
    {i \in 1 .. Len(messages) :
        messages[i].role = "assistant" /\ messages[i].content.kind = "string"}

\* C30, first part: after a clear, every text an assistant message of the store
\* holds is made of fragments received after the clear.
C30_NoPreClearText ==
    Cleared =>
        \A i \in 1 .. Len(messages) :
            messages[i].role = "assistant" =>
                \A t \in TextsOf(messages[i]) : t \in PostClearTexts \cup {""}
\* C30, second part: after a clear, no two messages of the store are two stages
\* of one growing text (a run of fragments is one message grown in place).
C30_OneMessagePerRun ==
    Cleared =>
        \A i, j \in AssistantStrings :
            i < j =>
                \A c \in {"a", "b", "c"} :
                    messages[j].content.text # messages[i].content.text \o c
\* C30: after clearMessages is called while a submission is streaming, the store
\* holds nothing that predates the clear, and a run of text fragments adds at
\* most one assistant message to it.
C30_ClearIsClean == C30_NoPreClearText /\ C30_OneMessagePerRun


\* C31: with one submission at a time and no clear, the messages the store held
\* when a submission began are, from then on and when it has completed, still
\* there at the same indices and unchanged; and every index below the store's
\* length holds a message.
C31_HistoryKept ==
    /\ \A s \in Subs :
          sub[s].pc # "idle" =>
              /\ Len(messages) >= sub[s].startLen
              /\ Len(sub[s].history) = sub[s].startLen
              /\ \A i \in 1 .. sub[s].startLen : messages[i] = sub[s].history[i]
    /\ DOMAIN messages = 1 .. Len(messages)
    /\ \A i \in 1 .. Len(messages) :
          messages[i].role \in {"user", "assistant", "tool"}
\* C31 witness: a second submission has completed after growing and replacing
\* its own assistant message, on top of a history that holds the first one's
\* user and assistant messages
C31_Witness ==
    /\ sub[2].pc = "done"
    /\ sub[2].startLen >= 2
    /\ \E i \in 1 .. sub[2].startLen : sub[2].history[i].role = "assistant"
    /\ Len(messages) > sub[2].startLen + 1
    /\ sub[2].fragments = 2


\* Submission s has been made and has not completed
InProgress(s) == sub[s].pc \notin {"idle", "done"}

\* C32: isLoading is true exactly while some submission is in progress: true from
\* sendMessage until that submission has completed, also when another one
\* completes meanwhile, and false once all have completed.
C32_LoadingWhileInProgress ==
    isLoading = (\E s \in Subs : InProgress(s))


\* The step handles a request to DELETE /tasks/:id
DeleteStep == server' # server /\ server'.last.route = "DELETE /tasks/:id"
\* The ids of the stored tasks
TaskIds(rows) == {rows[i].id : i \in 1 .. Len(rows)}
\* The stored tasks the path parameter id names (parseInt reads "1x" as 1)
NamedTasks(id) ==
    {i \in 1 .. Len(server.tasks) :
        \/ id = "1" /\ server.tasks[i].id = 1
        \/ id = "1x" /\ server.tasks[i].id = 1
        \/ id = "2" /\ server.tasks[i].id = 2}

\* C33: DELETE /tasks/:id removes a task only when the task it names exists and
\* its user_id is the caller's X-User-Id, and then only that task; when no such
\* task exists it answers 404, when the task is another user's it answers 403,
\* and in both cases the stored tasks are unchanged.
C33_Step ==
    (DeleteStep /\ server'.last.handled) =>
        LET caller == server'.last.userId
            status == server'.last.status
            owned == {i \in 1 .. Len(server.tasks) :
                         server.tasks[i].user_id = caller}
            id == server'.last.param
        IN    /\ (NamedTasks(id) = {}) =>
                     status = 404 /\ server'.tasks = server.tasks
              /\ (NamedTasks(id) # {} /\ NamedTasks(id) \cap owned = {}) =>
                     status = 403 /\ server'.tasks = server.tasks
              /\ (NamedTasks(id) \cap owned # {}) =>
                     /\ status = 200
                     /\ TaskIds(server'.tasks) =
                            TaskIds(server.tasks) \
                                {server.tasks[i].id : i \in NamedTasks(id)}
              /\ \A i \in 1 .. Len(server'.tasks) :
                     \E j \in 1 .. Len(server.tasks) :
                         server'.tasks[i] = server.tasks[j]
C33_DeleteOwnOnly == [][C33_Step]_vars

\* C33 witness: user u2 asked to delete the task of u1 and was answered 403, the
\* task still being stored
C33_Witness ==
    /\ server.last.route = "DELETE /tasks/:id"
    /\ server.last.status = 403
    /\ server.last.userId = "u2"
    /\ Len(server.tasks) = 1
    /\ server.tasks[1].user_id = "u1"


\* The step handles a request
RequestStep == server'.left = server.left - 1
\* The X-User-Id header is missing, empty or only whitespace
Blank(header) == ~header.present \/ header.value \in {"", "  "}
\* The tables of the server are left as they were
TablesKept ==
    /\ server'.data = server.data
    /\ server'.tasks = server.tasks
    /\ server'.nextTaskId = server.nextTaskId
\* A request with a blank header is answered 401 before any handler
BlankRejected ==
    Blank(server'.last.header) =>
        /\ server'.last.status = 401
        /\ ~server'.last.handled
        /\ TablesKept
\* The routes whose body a validator checks before the handler
ValidatedRoutes == {"POST /sync", "POST /tasks/schedule"}

\* C34 as stated: a request whose X-User-Id is missing, empty or whitespace is
\* answered 401 and its handler never runs; for any other request the handler
\* runs with userId equal to the header value.
C34_OriginalStep ==
    RequestStep =>
        /\ BlankRejected
        /\ ~Blank(server'.last.header) =>
              /\ server'.last.handled
              /\ server'.last.userId = server'.last.header.value
C34_Original == [][C34_OriginalStep]_vars

\* C34 amended: a request whose X-User-Id is missing, empty or whitespace is
\* answered 401, its handler never runs and the tables are untouched; any other
\* request passes the middleware, and its handler runs with userId equal to the
\* header value unless the route's body validator answers 400 first.
C34_AmendedStep ==
    RequestStep =>
        /\ BlankRejected
        /\ ~Blank(server'.last.header) =>
              \/ /\ server'.last.handled
                 /\ server'.last.status # 401
                 /\ server'.last.userId = server'.last.header.value
              \/ /\ ~server'.last.handled
                 /\ server'.last.status = 400
                 /\ server'.last.route \in ValidatedRoutes
                 /\ TablesKept
C34_Amended == [][C34_AmendedStep]_vars

\* C34 witness: after data was stored, a request with a whitespace header was
\* answered 401; and a handler ran with the header value as it came, untrimmed
C34_Witness ==
    /\ server.last.header = Header("  ")
    /\ server.last.status = 401
    /\ " u1" \in DOMAIN server.data


\* The user ids of the runs
Uids == {"u1", " u1", "u2"}

\* C35: the sync store keeps one record per uid, last write wins: get(uid) is the
\* data of the most recent store for that uid and undefined for a uid never
\* stored, whatever was stored for other uids; GET /sync answers with that data,
\* or 404 when there is none.
C35_LastWriteWins ==
    /\ \A uid \in Uids :
          /\ uid \in DOMAIN server.written <=> get(server.data, uid).defined
          /\ uid \in DOMAIN server.written =>
                get(server.data, uid).value =
                    server.written[uid][Len(server.written[uid])]
    /\ DOMAIN server.data \subseteq Uids
    /\ (server.last.route = "GET /sync" /\ server.last.handled) =>
          IF server.last.userId \in DOMAIN server.written
          THEN /\ server.last.status = 200
               /\ server.last.body =
                      server.written[server.last.userId]
                          [Len(server.written[server.last.userId])]
          ELSE server.last.status = 404
\* C35 witness: u1 stored twice, different data, and GET /sync answered u1 with
\* the second
C35_Witness ==
    /\ server.last.route = "GET /sync"
    /\ server.last.userId = "u1"
    /\ server.last.status = 200
    /\ Len(server.written["u1"]) = 2
    /\ server.written["u1"][1] # server.written["u1"][2]
    /\ server.last.body = server.written["u1"][2]


\* The tasks of the current run that the loop has gone through
Turns == 1 .. (server.fn.i - 1)
\* The stored row of task id
RowOf(id) == server.tasks[CHOOSE i \in 1 .. Len(server.tasks) : server.tasks[i].id = id]
\* The schedule fires at minute t; t is the first time after `from` it fires
Fires(schedule, t) ==
    \/ schedule = "0 * * * * *"
    \/ schedule = "0 */2 * * * *" /\ t % 2 = 0
IsNextTime(schedule, from, t) ==
    /\ t > from
    /\ Fires(schedule, t)
    /\ \A u \in (from + 1) .. (t - 1) : ~Fires(schedule, u)
\* For the tasks the loop has gone through, in the returned order: one agent was
\* started for each, and the task's next_run is the next time of its schedule
InOrderOnceEach ==
    /\ Len(server.agents) = server.fn.base + server.fn.i - 1
    /\ \A k \in Turns :
          /\ server.agents[server.fn.base + k].task = server.fn.tasks[k].id
          /\ server.agents[server.fn.base + k].prompt = server.fn.tasks[k].prompt
          /\ IsNextTime(server.fn.tasks[k].schedule, server.fn.at,
                        RowOf(server.fn.tasks[k].id).next_run)
\* The run has ended
RunEnded == server.fn.pc \in {"done", "thrown"}

\* C36: in one run of fn the loop goes through the tasks getPendingTasks returned
\* in order, starting one agent for each and then updating its next_run, and the
\* run ends, whatever the agents do, only when it has gone through all of them.
C36_EveryPendingTaskProcessed ==
    /\ server.fn.pc # "idle" => InOrderOnceEach
    /\ RunEnded => server.fn.i = Len(server.fn.tasks) + 1
\* The same, for the runs in which every stored schedule is a cron expression
ProcessedWhenSchedulesValid ==
    (\A i \in 1 .. Len(server.tasks) : ValidCron(server.tasks[i].schedule)) =>
        C36_EveryPendingTaskProcessed
\* A run has ended after two tasks while the agent of the first had failed during
\* the run and the agent of the second is still running
RunEndedBeforeAgents ==
    /\ server.fn.pc = "done"
    /\ Len(server.fn.tasks) = 2
    /\ Len(server.agents) = server.fn.base + 2
    /\ server.agents[server.fn.base + 1].status = "failed"
    /\ server.agents[server.fn.base + 2].status = "running"


====
